---- MODULE Spec2Model ----
(***************************************************************************)
(* pytest-gitbark: the Repo handle (util.py), the scoped helpers           *)
(* on_branch / uninstall_hooks, the verification helpers verify_rules /    *)
(* verify_action and the fixtures of plugin.py, over a model of the        *)
(* repository directory (git's HEAD, refs, objects, index; the working     *)
(* files; the reference-transaction hook file).                            *)
(***************************************************************************)
EXTENDS Naturals, Sequences, FiniteSets, TLC

\* Commit objects ever written (the object store is bounded).
MaxCommits == 2

(***************************************************************************)
(* Names.  A branch name is the sequence of its path components, so that   *)
(* "x/main" is <<"x", "main">> and git's matching of reference patterns    *)
(* by trailing components is computed, not assumed.                        *)
(***************************************************************************)
MAIN_BRANCH == <<"main">>

BARK_RULES_BRANCH == <<"bark_rules">>

\* The branch names callers pass.
BranchInputs == {MAIN_BRANCH, BARK_RULES_BRANCH, <<"x", "main">>}

\* The branch git init starts on (init.defaultBranch is not configured).
DefaultBranch == <<"master">>

Branches == BranchInputs \cup {DefaultBranch}

BARK_RULES == "bark_rules.yaml"

COMMIT_RULES == "commit_rules.yaml"

Files == {COMMIT_RULES, BARK_RULES}

\* The content of a path that does not exist.
NoFile == <<>>

\* Commit rules a caller may pass to verify_rules: None, the empty dict, a
\* document.
CommitRulesInputs == {"None", "{}", "r1"}

\* BarkRules objects a caller may pass (None, or a dataclass instance).
BarkRulesInputs == {"None", "b1"}

\* Python truthiness of an optional dict / dataclass instance.
Truthy(doc) == doc \notin {"None", "{}"}

\* yaml.safe_dump(doc, sort_keys=False): the text of the document.
YamlDump(doc) == <<"yaml", doc>>

EmptyTree == [f \in Files |-> NoFile]

\* Hook scripts: the empty file and a policy script.
HookContents == {<<>>, <<"bark-hook">>}

ExecBits == {"u", "g", "o"}

\* Permission sets a hook file is given by whoever installs it.
HookModes == {{}, {"u"}, ExecBits}

NoHook == [present |-> FALSE, content |-> <<>>, x |-> {}]

(***************************************************************************)
(* A directory tree: the repository directory, or a dump of it.            *)
(***************************************************************************)
NoDir ==
    [exists |-> FALSE, HEAD |-> <<>>, refs |-> [b \in Branches |-> 0],
     objs |-> {}, hasindex |-> FALSE, index |-> EmptyTree, wt |-> EmptyTree,
     barkdir |-> FALSE, junk |-> FALSE, hook |-> NoHook, config |-> <<>>]

\* os.makedirs / mktemp: an existing directory with nothing in it.
EmptyDir == [NoDir EXCEPT !.exists = TRUE]

VARIABLES
    repo,      \* the repository directory (Repo.path)
    commits,   \* the commit objects ever written: id |-> [parent, tree]
    snapshot,  \* the session dump directory (repo_dump's dump_path)
    d,         \* a dump directory a test owns
    stack,     \* the open scopes (with-blocks), innermost first
    exc,       \* the exception in flight, "None" when there is none
    last,      \* the last call that completed, and what it observed
    dumped     \* the repository tree at the moment of the last dump to d

vars == <<repo, commits, snapshot, d, stack, exc, last, dumped>>

(***************************************************************************)
(* git, as driven by Repo.cmd.  Each command yields [ok, repo]; ok is      *)
(* the exit status being zero.                                             *)
(***************************************************************************)
TreeOf(cs, c) == IF c = 0 THEN EmptyTree ELSE cs[c].tree

\* The reference-transaction hook runs iff the file is there, is executable
\* by its owner and is not empty.
HookActive(r) == r.hook.present /\ "u" \in r.hook.x /\ r.hook.content # <<>>

IsSuffix(p, s) ==
    Len(p) <= Len(s) /\ SubSeq(s, Len(s) - Len(p) + 1, Len(s)) = p

RefName(b) == <<"refs", "heads">> \o b

\* git show-ref -q --heads <pattern>: a pattern matches a reference by its
\* trailing complete components.
show_ref_heads(r, pattern) ==
    \E b \in Branches : r.refs[b] # 0 /\ IsSuffix(pattern, RefName(b))

has_branch(r, branch) == show_ref_heads(r, branch)

\* git symbolic-ref --short HEAD
active_branch(r) == r.HEAD

\* git rev-parse HEAD: the commit id, 0 when the command fails (unborn).
head(r) == r.refs[r.HEAD]

\* git checkout --orphan <b>: HEAD names the unborn branch, index and
\* working files are kept.  Fails if the branch exists.
git_checkout_orphan(r, b) ==
    IF r.refs[b] # 0 THEN [ok |-> FALSE, repo |-> r]
    ELSE [ok |-> TRUE, repo |-> [r EXCEPT !.HEAD = b]]

\* git checkout -b <b>: a new branch at HEAD's commit; from an unborn HEAD
\* only HEAD changes.  Creating the reference goes through the hook.
git_checkout_new(r, b, rejected) ==
    IF r.refs[b] # 0 THEN [ok |-> FALSE, repo |-> r]
    ELSE IF head(r) = 0 THEN [ok |-> TRUE, repo |-> [r EXCEPT !.HEAD = b]]
    ELSE IF HookActive(r) /\ rejected THEN [ok |-> FALSE, repo |-> r]
    ELSE [ok |-> TRUE, repo |-> [r EXCEPT !.HEAD = b, !.refs[b] = head(r)]]

\* A path blocks the switch from tree H to tree M when the trees differ
\* there and the index holds a third content, or holds H's content while
\* the working file differs from the index.
Blocks(r, H, M, f) ==
    /\ H[f] # M[f]
    /\ r.index[f] # M[f]
    /\ (r.index[f] # H[f] \/ r.wt[f] # r.index[f])

Updated(r, H, M, f) == H[f] # M[f] /\ r.index[f] # M[f]

\* git checkout <b>: the two-way merge of the index from HEAD's tree to
\* b's tree; nothing changes when a path blocks it, or when b is no branch.
git_checkout(r, cs, b) ==
    LET H == TreeOf(cs, head(r))
        M == TreeOf(cs, r.refs[b])
        newwt == [f \in Files |-> IF Updated(r, H, M, f) THEN M[f] ELSE r.wt[f]]
        removed == \E f \in Files : Updated(r, H, M, f) /\ M[f] = NoFile
    IN  IF r.refs[b] = 0 \/ \E f \in Files : Blocks(r, H, M, f)
        THEN [ok |-> FALSE, repo |-> r]
        ELSE [ok |-> TRUE,
              repo |-> [r EXCEPT
                  !.HEAD = b,
                  !.hasindex = TRUE,
                  !.index = [f \in Files |->
                                IF Updated(r, H, M, f) THEN M[f] ELSE r.index[f]],
                  !.wt = newwt,
                  !.barkdir = (\E f \in Files : newwt[f] # NoFile)
                              \/ (r.barkdir /\ ~removed)]]

\* git add <file>
git_add(r, f) == [r EXCEPT !.hasindex = TRUE, !.index[f] = r.wt[f]]

\* git commit -m <message> --allow-empty: the commit object is written, then
\* the branch is moved unless the hook aborts the update.
git_commit(r, cs, rejected) ==
    LET id == Len(cs) + 1
        written == [r EXCEPT !.hasindex = TRUE, !.objs = @ \cup {id}]
    IN  IF HookActive(r) /\ rejected
        THEN [ok |-> FALSE, repo |-> written]
        ELSE [ok |-> TRUE, repo |-> [written EXCEPT !.refs[r.HEAD] = id]]

NewCommit(r) == [parent |-> head(r), tree |-> r.index]

\* git init in an existing directory
git_init(r) == [r EXCEPT !.HEAD = DefaultBranch]

\* git config <key> <value>
git_config(r, key, value) == [r EXCEPT !.config = Append(@, <<key, value>>)]

(***************************************************************************)
(* Repo.  A method yields [exc, repo, commits]: exc is the type of the     *)
(* exception it raises, "None" when it returns.                            *)
(***************************************************************************)
Ret(e, r, cs) == [exc |-> e, repo |-> r, commits |-> cs]

\* A local of a method: the value is computed once and named in the rest.
Local(value, Rest(_)) == Rest(value)

\* Repo.cmd with check=True: a non-zero exit raises CalledProcessError.
Checked(res, cs) ==
    Ret(IF res.ok THEN "None" ELSE "CalledProcessError", res.repo, cs)

init_repo(r) ==
    git_checkout_new(git_init(r), MAIN_BRANCH, FALSE).repo

set_user(r, name, email) ==
    git_config(git_config(r, "user.name", name), "user.email", email)

init_config(r) ==
    set_user(git_config(r, "commit.gpgsign", "false"), "Test", "test@test.com")

\* Repo.__init__
RepoInit(dir) ==
    init_config(init_repo(IF dir.exists THEN dir ELSE EmptyDir))

checkout(r, cs, branch, orphan, rejected) ==
    IF ~has_branch(r, branch)
    THEN IF orphan
         THEN Checked(git_checkout_orphan(r, branch), cs)
         ELSE Checked(git_checkout_new(r, branch, rejected), cs)
    ELSE Checked(git_checkout(r, cs, branch), cs)

commit(r, cs, rejected) ==
    Checked(git_commit(r, cs, rejected), Append(cs, NewCommit(r)))

write_bark_file(r, file, content) ==
    git_add([r EXCEPT !.barkdir = TRUE, !.wt[file] = content], file)

write_bark_rules_unchecked(r, cs, bark_rules) ==
    LET w == write_bark_file(r, BARK_RULES, YamlDump(bark_rules))
    IN  IF active_branch(w) # BARK_RULES_BRANCH
        THEN Ret("Exception", w, cs)
        ELSE Ret("None", w, cs)

write_bark_rules(r, cs, bark_rules) ==
    IF active_branch(r) # BARK_RULES_BRANCH
    THEN Ret("Exception", r, cs)
    ELSE Ret("None", write_bark_file(r, BARK_RULES, YamlDump(bark_rules)), cs)

write_commit_rules(r, cs, commit_rules) ==
    Ret("None", write_bark_file(r, COMMIT_RULES, YamlDump(commit_rules)), cs)

(***************************************************************************)
(* shutil.copytree(src, dst, dirs_exist_ok): every file of src is written  *)
(* to the same path under dst (content and mode); what dst holds at other  *)
(* paths stays.                                                            *)
(***************************************************************************)
CopyTree(src, dst) ==
    [exists |-> TRUE,
     HEAD |-> IF src.HEAD # <<>> THEN src.HEAD ELSE dst.HEAD,
     refs |-> [b \in Branches |-> IF src.refs[b] # 0 THEN src.refs[b] ELSE dst.refs[b]],
     objs |-> src.objs \cup dst.objs,
     hasindex |-> src.hasindex \/ dst.hasindex,
     index |-> IF src.hasindex THEN src.index ELSE dst.index,
     wt |-> [f \in Files |-> IF src.wt[f] # NoFile THEN src.wt[f] ELSE dst.wt[f]],
     barkdir |-> src.barkdir \/ dst.barkdir,
     junk |-> src.junk \/ dst.junk,
     hook |-> IF src.hook.present THEN src.hook ELSE dst.hook,
     config |-> IF src.config # <<>> THEN src.config ELSE dst.config]

\* shutil.rmtree(path)
RmTree(dir) == NoDir

\* Repo.dump: the new content of dump_path.
dump(r, dump_path) == CopyTree(r, dump_path)

restore_from_dump_no_rmtree(r, dump_path) == CopyTree(dump_path, r)

\* Repo.restore_from_dump: the new content of the repository directory.
restore_from_dump(r, dump_path) == CopyTree(dump_path, RmTree(r))

(***************************************************************************)
(* Repo.on_branch.  Entering runs the checkout; when that raises, the      *)
(* finally clause runs at once and the block is never entered.             *)
(***************************************************************************)
on_branch_exit_stay(r, cs, curr_branch, rejected) == Ret("None", r, cs)

\* The finally clause: self.checkout(curr_branch)
on_branch_exit(r, cs, curr_branch, rejected) ==
    checkout(r, cs, curr_branch, FALSE, rejected)

on_branch_enter(r, cs, branch, orphan_branch, rejected, rejected_back) ==
    Local(active_branch(r), LAMBDA curr_branch :
    Local(checkout(r, cs, branch, orphan_branch, rejected), LAMBDA c :
        IF c.exc = "None"
        THEN [exc |-> "None", repo |-> c.repo, commits |-> c.commits,
              entered |-> TRUE, curr_branch |-> curr_branch]
        ELSE Local(on_branch_exit(c.repo, c.commits, curr_branch, rejected_back),
             LAMBDA back :
             [exc |-> IF back.exc # "None" THEN back.exc ELSE c.exc,
              repo |-> back.repo, commits |-> back.commits,
              entered |-> FALSE, curr_branch |-> curr_branch])))

(***************************************************************************)
(* uninstall_hooks.  hook_content is None ("captured" is FALSE) unless the *)
(* hook file existed on entry.                                             *)
(***************************************************************************)
uninstall_hooks_enter(r) ==
    [repo |-> IF r.hook.present THEN [r EXCEPT !.hook = NoHook] ELSE r,
     captured |-> r.hook.present,
     hook_content |-> r.hook.content]

\* open(hook_path, "w"): a new file has no executable bit; an existing file
\* keeps its mode.
WriteHook(r, content) ==
    [r EXCEPT !.hook = [present |-> TRUE, content |-> content,
                        x |-> IF r.hook.present THEN r.hook.x ELSE {}]]

\* os.chmod(hook_path, st_mode | S_IXUSR | S_IXGRP | S_IXOTH)
ChmodExec(r) == [r EXCEPT !.hook.x = @ \cup ExecBits]

uninstall_hooks_exit(r, captured, hook_content) ==
    IF captured /\ hook_content # <<>>
    THEN ChmodExec(WriteHook(r, hook_content))
    ELSE r

(***************************************************************************)
(* plugin._bark_cli.  A result of CliRunner.invoke is [exit_code,          *)
(* exception]; an exception is <<type, argument>>.                         *)
(***************************************************************************)
NoException == <<"None", "">>

\* What CliRunner.invoke can return: exit code zero and no exception, or a
\* non-zero code with the exception it caught.
CliResults ==
    {[exit_code |-> 0, exception |-> NoException]}
    \cup {[exit_code |-> 1, exception |-> e] :
            e \in {<<"CliFail", "rejected">>, <<"RuntimeError", "boom">>}}
    \cup {[exit_code |-> 2, exception |-> <<"SystemExit", "2">>]}

\* Subclasses of Exception; SystemExit and pytest's Failed derive from
\* BaseException only.
IsException(type) ==
    type \in {"Exception", "CalledProcessError", "CliFail", "RuntimeError",
              "AssertionError"}

bark_cli_swapped(result) ==
    IF result.exit_code # 0 /\ result.exception[1] # "CliFail"
    THEN [raised |-> <<"SystemExit", "">>, returned |-> FALSE]
    ELSE IF result.exit_code # 0
    THEN [raised |-> result.exception, returned |-> FALSE]
    ELSE [raised |-> NoException, returned |-> TRUE]

bark_cli(result) ==
    IF result.exit_code # 0
    THEN IF result.exception[1] = "CliFail"
         THEN [raised |-> <<"SystemExit", "">>, returned |-> FALSE]
         ELSE [raised |-> result.exception, returned |-> FALSE]
    ELSE [raised |-> NoException, returned |-> TRUE]

(***************************************************************************)
(* The callables a test hands to verify_rules / verify_action.             *)
(***************************************************************************)
Actions ==
    {[kind |-> k, result |-> [exit_code |-> 0, exception |-> NoException]] :
        k \in {"commit", "commit_raise"}}
    \cup {[kind |-> "cli", result |-> res] : res \in CliResults}

Commits(action) == IF action.kind \in {"commit", "commit_raise"} THEN 1 ELSE 0

\* action(repo)
RunAction(action, r, cs, rejected) ==
    IF action.kind = "commit" THEN commit(r, cs, rejected)
    ELSE IF action.kind = "commit_raise"
    THEN Local(commit(r, cs, rejected), LAMBDA c :
             IF c.exc # "None" THEN c ELSE Ret("Exception", c.repo, c.commits))
    ELSE IF action.kind = "cli" THEN Ret(bark_cli(action.result).raised[1], r, cs)
    ELSE Ret("None", r, cs)

(***************************************************************************)
(* verify_action and verify_rules.  The result carries what the call       *)
(* observed: the log of its rule commits, of the head it recorded and of   *)
(* the invocation of the action, in the order the code performs them.      *)
(***************************************************************************)
\* if passes: action(repo)  else: with pytest.raises(Exception): action(repo)
\* The exception that leaves the statement, given the one the action raised.
ExpectRaises(passes, action_exc) ==
    IF passes THEN action_exc
    ELSE IF action_exc = "None" THEN "Failed"
    ELSE IF IsException(action_exc) THEN "None"
    ELSE action_exc

HeadAssert_none(passes, curr_head, post_head) == "None"

\* if passes: assert curr_head != post_head  else: assert curr_head == post_head
HeadAssert(passes, curr_head, post_head) ==
    IF passes /\ curr_head = post_head THEN "AssertionError"
    ELSE IF ~passes /\ curr_head # post_head THEN "AssertionError"
    ELSE "None"

Observed(e, r, cs, log, invoked, action_exc, curr_head, post_head) ==
    [exc |-> e, repo |-> r, commits |-> cs, log |-> log, invoked |-> invoked,
     action_exc |-> action_exc, curr_head |-> curr_head, post_head |-> post_head]

NotInvoked(res, log) == Observed(res.exc, res.repo, res.commits, log, FALSE, "None", 0, 0)

verify_action(r, cs, passes, action, rejected) ==
    Local(head(r), LAMBDA curr_head :
        IF curr_head = 0
        THEN NotInvoked(Ret("CalledProcessError", r, cs), <<>>)
        ELSE
    Local(RunAction(action, r, cs, rejected), LAMBDA a :
    Local(ExpectRaises(passes, a.exc), LAMBDA after :
    Local(head(a.repo), LAMBDA post_head :
        Observed(IF after # "None" THEN after
                 ELSE IF post_head = 0 THEN "CalledProcessError"
                 ELSE HeadAssert(passes, curr_head, post_head),
                 a.repo, a.commits,
                 << <<"head", curr_head>>, <<"action", active_branch(r), head(r)>> >>,
                 TRUE, a.exc, curr_head,
                 IF after # "None" THEN 0 ELSE post_head)))))

CommitEvent(file, r) == <<"commit", file, active_branch(r), head(r)>>

verify_rules(r, cs, passes, action, commit_rules, bark_rules, rej) ==
    \* if commit_rules: repo.write_commit_rules(commit_rules); repo.commit(...)
    Local(IF Truthy(commit_rules)
          THEN Local(write_commit_rules(r, cs, commit_rules), LAMBDA w1 :
                   commit(w1.repo, w1.commits, "commit_rules" \in rej))
          ELSE Ret("None", r, cs), LAMBDA s1 :
    Local(IF Truthy(commit_rules) /\ s1.exc = "None"
          THEN << CommitEvent(COMMIT_RULES, s1.repo) >> ELSE <<>>, LAMBDA log1 :
        IF s1.exc # "None" THEN NotInvoked(s1, log1)
        ELSE
    \* if bark_rules: with repo.on_branch(BARK_RULES_BRANCH, True): write, commit
    Local(IF ~Truthy(bark_rules) THEN s1 @@ [log |-> <<>>]
          ELSE
          Local(on_branch_enter(s1.repo, s1.commits, BARK_RULES_BRANCH, TRUE,
                                FALSE, "back" \in rej), LAMBDA e :
              IF ~e.entered THEN Ret(e.exc, e.repo, e.commits) @@ [log |-> <<>>]
              ELSE
          Local(write_bark_rules(e.repo, e.commits, bark_rules), LAMBDA w2 :
          Local(IF w2.exc = "None"
                THEN commit(w2.repo, w2.commits, "bark_rules" \in rej)
                ELSE w2, LAMBDA c2 :
          Local(on_branch_exit(c2.repo, c2.commits, e.curr_branch, "back" \in rej),
                LAMBDA x :
              Ret(IF x.exc # "None" THEN x.exc ELSE c2.exc, x.repo, x.commits)
              @@ [log |-> IF c2.exc = "None"
                          THEN << CommitEvent(BARK_RULES, c2.repo) >>
                          ELSE <<>>])))),
          LAMBDA s2 :
        IF s2.exc # "None" THEN NotInvoked(s2, log1 \o s2.log)
        ELSE
    Local(verify_action(s2.repo, s2.commits, passes, action, "action" \in rej),
          LAMBDA v : [v EXCEPT !.log = log1 \o s2.log \o @]))))

\* The commits a call of verify_rules may write.
CommitsNeeded(action, commit_rules, bark_rules) ==
    Commits(action) + (IF Truthy(commit_rules) THEN 1 ELSE 0)
                    + (IF Truthy(bark_rules) THEN 1 ELSE 0)

(***************************************************************************)
(* Fixtures of plugin.py.                                                  *)
(***************************************************************************)
\* repo_dump: mktemp("repo"), mktemp("dump"), Repo(repo_path), repo.dump.
SessionRepo == RepoInit(EmptyDir)

SessionDump == dump(SessionRepo, EmptyDir)

\* repo: the repository a test function receives.
repo_fixture(r, dump_path) == restore_from_dump(r, dump_path)

(***************************************************************************)
(* The state machine: a test session.  Each action is one call a test (or  *)
(* pytest) makes; a with-block is entered, runs the calls made while its   *)
(* frame is open, and is left normally or by an exception.                 *)
(***************************************************************************)
\* The hook's verdicts: it can abort an update only when it runs.
Verdicts(r) == IF HookActive(r) THEN BOOLEAN ELSE {FALSE}

\* The updates a call of verify_rules puts to the hook.
Sites(action, commit_rules, bark_rules) ==
    (IF Truthy(commit_rules) THEN {"commit_rules"} ELSE {})
    \cup (IF Truthy(bark_rules) THEN {"bark_rules", "back"} ELSE {})
    \cup (IF Commits(action) > 0 THEN {"action"} ELSE {})

VerdictSets(r, sites) == IF HookActive(r) THEN SUBSET sites ELSE {{}}

\* A frame holds the locals of the scope; mode is not a local of the code:
\* it records the hook file's permissions on entry, for the properties.
Frame(kind, curr_branch, captured, hook_content, mode) ==
    [kind |-> kind, curr_branch |-> curr_branch, captured |-> captured,
     hook_content |-> hook_content, mode |-> mode]

Open(kind) == \E i \in 1..Len(stack) : stack[i].kind = kind

Running == exc = "None"

\* Objects no directory holds any more are forgotten (their ids are free).
Trim(cs, r, dump_path) ==
    LET used == r.objs \cup dump_path.objs \cup snapshot.objs
    IN  SubSeq(cs, 1, IF used = {} THEN 0
                      ELSE CHOOSE n \in used : \A m \in used : m <= n)

Done(res, op, info) ==
    /\ repo' = res.repo
    /\ commits' = res.commits
    /\ exc' = res.exc
    /\ last' = [op |-> op, exc |-> res.exc, info |-> info]

Init ==
    /\ repo = SessionRepo
    /\ commits = <<>>
    /\ snapshot = SessionDump
    /\ d = NoDir
    /\ stack = <<>>
    /\ exc = "None"
    /\ last = [op |-> "repo_dump", exc |-> "None", info |-> <<>>]
    /\ dumped = NoDir

Checkout(branch, orphan, rejected) ==
    /\ Running
    /\ Done(checkout(repo, commits, branch, orphan, rejected), "checkout",
            [branch |-> branch, orphan |-> orphan])
    /\ UNCHANGED <<snapshot, d, stack, dumped>>

Commit(rejected) ==
    /\ Running
    /\ Len(commits) < MaxCommits
    /\ Done(commit(repo, commits, rejected), "call", <<>>)
    /\ UNCHANGED <<snapshot, d, stack, dumped>>

WriteCommitRules(commit_rules) ==
    /\ Running
    /\ Done(write_commit_rules(repo, commits, commit_rules), "call", <<>>)
    /\ UNCHANGED <<snapshot, d, stack, dumped>>

WriteBarkRules(bark_rules) ==
    /\ Running
    /\ Done(write_bark_rules(repo, commits, bark_rules), "write_bark_rules",
            [pre_branch |-> active_branch(repo)])
    /\ UNCHANGED <<snapshot, d, stack, dumped>>

\* with repo.on_branch(branch, orphan): ...
EnterOnBranch(branch, orphan, rejected, rejected_back) ==
    /\ Running
    /\ ~Open("on_branch")
    /\ LET e == on_branch_enter(repo, commits, branch, orphan, rejected, rejected_back)
       IN  /\ Done(e, IF e.entered THEN "on_branch_enter" ELSE "on_branch_exit",
                   [curr_branch |-> e.curr_branch,
                    how |-> IF e.entered THEN "entered" ELSE "checkout failed"])
           /\ stack' = IF e.entered
                       THEN <<Frame("on_branch", e.curr_branch, FALSE, <<>>, {})>> \o stack
                       ELSE stack
    /\ UNCHANGED <<snapshot, d, dumped>>

\* with uninstall_hooks(repo): ...
EnterUninstallHooks ==
    /\ Running
    /\ ~Open("uninstall_hooks")
    /\ LET e == uninstall_hooks_enter(repo)
       IN  /\ Done(Ret("None", e.repo, commits), "call", <<>>)
           /\ stack' = <<Frame("uninstall_hooks", <<>>, e.captured, e.hook_content,
                               repo.hook.x)>>
                       \o stack
    /\ UNCHANGED <<snapshot, d, dumped>>

\* The finally clause of the innermost open scope.
Finally(fr, rejected) ==
    IF fr.kind = "on_branch"
    THEN on_branch_exit(repo, commits, fr.curr_branch, rejected)
    ELSE Ret("None", uninstall_hooks_exit(repo, fr.captured, fr.hook_content), commits)

ExitInfo(fr, how) ==
    IF fr.kind = "on_branch"
    THEN [curr_branch |-> fr.curr_branch, how |-> how]
    ELSE [captured |-> fr.captured, hook_content |-> fr.hook_content,
          mode |-> fr.mode, how |-> how]

\* The block returns: the scope is left normally.
LeaveScope(rejected) ==
    /\ Running
    /\ stack # <<>>
    /\ LET fr == Head(stack)
       IN  Done(Finally(fr, rejected), fr.kind \o "_exit", ExitInfo(fr, "returned"))
    /\ stack' = Tail(stack)
    /\ UNCHANGED <<snapshot, d, dumped>>

\* An exception leaves the block: the finally clause runs and the exception
\* (or the one the clause raises) goes on.
Unwind(rejected) ==
    /\ ~Running
    /\ stack # <<>>
    /\ LET fr == Head(stack)
           f == Finally(fr, rejected)
       IN  Done([f EXCEPT !.exc = IF f.exc # "None" THEN f.exc ELSE exc],
                fr.kind \o "_exit", ExitInfo(fr, "raised"))
    /\ stack' = Tail(stack)
    /\ UNCHANGED <<snapshot, d, dumped>>

VerifyInfo(passes, action, commit_rules, bark_rules, v) ==
    [passes |-> passes, action |-> action, commit_rules |-> commit_rules,
     bark_rules |-> bark_rules, branch |-> active_branch(repo), log |-> v.log,
     invoked |-> v.invoked, action_exc |-> v.action_exc,
     curr_head |-> v.curr_head, post_head |-> v.post_head]

VerifyRules(passes, action, commit_rules, bark_rules, rej) ==
    /\ Running
    /\ Len(commits) + CommitsNeeded(action, commit_rules, bark_rules) <= MaxCommits
    /\ LET v == verify_rules(repo, commits, passes, action, commit_rules, bark_rules, rej)
       IN  Done(v, "verify_rules", VerifyInfo(passes, action, commit_rules, bark_rules, v))
    /\ UNCHANGED <<snapshot, d, stack, dumped>>

VerifyAction(passes, action, rejected) ==
    /\ Running
    /\ Len(commits) + Commits(action) <= MaxCommits
    /\ LET v == verify_action(repo, commits, passes, action, rejected)
       IN  Done(v, "verify_action", VerifyInfo(passes, action, "None", "None", v))
    /\ UNCHANGED <<snapshot, d, stack, dumped>>

\* A test calls the bark_cli fixture.
BarkCli(result) ==
    /\ Running
    /\ LET c == bark_cli(result)
       IN  Done(Ret(c.raised[1], repo, commits), "bark_cli",
                [result |-> result, raised |-> c.raised, returned |-> c.returned])
    /\ UNCHANGED <<snapshot, d, stack, dumped>>

\* A test (or the tool's installer) writes the reference-transaction hook.
InstallHook(content, mode) ==
    /\ Running
    /\ Done(Ret("None", [repo EXCEPT !.hook = [present |-> TRUE, content |-> content,
                                               x |-> mode]], commits),
            "call", <<>>)
    /\ UNCHANGED <<snapshot, d, stack, dumped>>

\* A test creates or deletes an untracked file in the repository directory.
Scribble ==
    /\ Running
    /\ Done(Ret("None", [repo EXCEPT !.junk = ~@], commits), "call", <<>>)
    /\ UNCHANGED <<snapshot, d, stack, dumped>>

\* A test dumps the repository to a directory of its own.
Dump ==
    /\ Running
    /\ d' = dump(repo, d)
    /\ dumped' = repo
    /\ last' = [op |-> "call", exc |-> "None", info |-> <<>>]
    /\ UNCHANGED <<repo, commits, snapshot, stack, exc>>

\* A test restores the repository from the directory it dumped to.
RestoreFromDump ==
    /\ Running
    /\ d.exists
    /\ LET r == restore_from_dump(repo, d)
       IN  Done(Ret("None", r, Trim(commits, r, d)), "restore_from_dump", <<>>)
    /\ UNCHANGED <<snapshot, d, stack, dumped>>

\* The test function is over (it returned, or its exception reached pytest)
\* and the next one asks for the repo fixture.
NewTest ==
    /\ stack = <<>>
    /\ LET r == repo_fixture(repo, snapshot)
       IN  Done(Ret("None", r, Trim(commits, r, d)), "repo",
                [changed |-> repo # snapshot])
    /\ UNCHANGED <<snapshot, d, stack, dumped>>

\* The hook script the tool installs.
PolicyHook == <<"bark-hook">>

(***************************************************************************)
(* The test session: tests change the repository directory in every way    *)
(* the handle and the file system allow, and each next test starts from    *)
(* the repo fixture.                                                       *)
(***************************************************************************)
Next ==
    \/ \E b \in BranchInputs, o \in BOOLEAN, rj \in Verdicts(repo) : Checkout(b, o, rj)
    \/ \E rj \in Verdicts(repo) : Commit(rj)
    \/ \E cr \in {"r1"} : WriteCommitRules(cr)
    \/ \E c \in HookContents, m \in HookModes : InstallHook(c, m)
    \/ Scribble
    \/ NewTest

Spec == Init /\ [][Next]_vars

(***************************************************************************)
(* The Repo handle and its on_branch scope.                                *)
(***************************************************************************)
NextRepo ==
    \/ \E b \in BranchInputs, o \in BOOLEAN, rj \in Verdicts(repo) : Checkout(b, o, rj)
    \/ \E rj \in Verdicts(repo) : Commit(rj)
    \/ \E cr \in {"r1", "r2"} : WriteCommitRules(cr)
    \/ \E b \in BranchInputs, o \in BOOLEAN, rj \in Verdicts(repo), rb \in Verdicts(repo) :
          EnterOnBranch(b, o, rj, rb)
    \/ \E rj \in Verdicts(repo) : LeaveScope(rj)
    \/ \E rj \in Verdicts(repo) : Unwind(rj)
    \/ InstallHook(PolicyHook, ExecBits)

SpecRepo == Init /\ [][NextRepo]_vars

(***************************************************************************)
(* The verification helpers.                                               *)
(***************************************************************************)
NextVerify ==
    \/ \E b \in BranchInputs, rj \in Verdicts(repo) : Checkout(b, FALSE, rj)
    \/ \E p \in BOOLEAN, a \in Actions, cr \in CommitRulesInputs, br \in BarkRulesInputs :
          \E rej \in VerdictSets(repo, Sites(a, cr, br)) : VerifyRules(p, a, cr, br, rej)
    \/ \E p \in BOOLEAN, a \in Actions :
          \E rej \in VerdictSets(repo, Sites(a, "None", "None")) :
              VerifyAction(p, a, "action" \in rej)
    \/ InstallHook(PolicyHook, ExecBits)
    \/ NewTest

SpecVerify == Init /\ [][NextVerify]_vars

(***************************************************************************)
(* The uninstall_hooks scope and the CLI fixture.                          *)
(***************************************************************************)
NextHooks ==
    \/ \E c \in HookContents, m \in HookModes : InstallHook(c, m)
    \/ EnterUninstallHooks
    \/ \E b \in {MAIN_BRANCH, BARK_RULES_BRANCH}, rj \in Verdicts(repo) : Checkout(b, TRUE, rj)
    \/ \E br \in {"b1"} : WriteBarkRules(br)
    \/ \E rj \in Verdicts(repo) : Commit(rj)
    \/ \E res \in CliResults : BarkCli(res)
    \/ \E rj \in Verdicts(repo) : LeaveScope(rj)
    \/ \E rj \in Verdicts(repo) : Unwind(rj)
    \/ NewTest

SpecHooks == Init /\ [][NextHooks]_vars

(***************************************************************************)
(* Dump and restore to a directory a test owns.                            *)
(***************************************************************************)
NextDump ==
    \/ \E b \in BranchInputs, rj \in Verdicts(repo) : Checkout(b, FALSE, rj)
    \/ \E rj \in Verdicts(repo) : Commit(rj)
    \/ \E cr \in {"r1"} : WriteCommitRules(cr)
    \/ Scribble
    \/ Dump
    \/ RestoreFromDump

SpecDump == Init /\ [][NextDump]_vars

(***************************************************************************)
(* Properties.                                                             *)
(***************************************************************************)

\* C1: after dump(d) followed later by restore_from_dump(d), whatever d held
\* before and whatever happened to the repository in between, the
\* repository tree equals the tree it had at the moment of the dump.
C1_DumpRestoreRoundTrip ==
    last.op = "restore_from_dump" => repo = dumped

\* C2: whenever an on_branch scope is left (the block returned, the block
\* raised, or the checkout on entry failed), the active branch is the one
\* that was active just before the scope was entered.
\* (Stated for the runs in which no hook can veto a reference update and
\* has_branch does not take another branch for the prior one: the property
\* fails there too, and fails a fortiori without the restriction.)
C2_OnBranchRestoresBranch ==
    (/\ last.op = "on_branch_exit"
     /\ ~HookActive(repo)
     /\ has_branch(repo, last.info.curr_branch)
            => repo.refs[last.info.curr_branch] # 0)
    => active_branch(repo) = last.info.curr_branch

\* C3: a hook file that exists when uninstall_hooks is entered exists again
\* after the scope is left, with its original content and its original
\* executable bits.
C3_HookRestored ==
    (last.op = "uninstall_hooks_exit" /\ last.info.captured) =>
        repo.hook = [present |-> TRUE, content |-> last.info.hook_content,
                     x |-> last.info.mode]

VerifyCalled == last.op \in {"verify_action", "verify_rules"}

\* The head at the moment the action was invoked (the last entry of the log).
HeadAtAction == last.info.log[Len(last.info.log)][3]

\* C4: when verify_action / verify_rules returns without raising, then with
\* passes=True the action did not raise and the head differs from the head
\* before the action; with passes=False the action raised and the head is
\* the head before the action.
C4_VerifyOutcomeMatchesFlag ==
    (VerifyCalled /\ last.exc = "None") =>
        /\ last.info.invoked
        /\ last.info.passes =>
              (last.info.action_exc = "None" /\ head(repo) # HeadAtAction)
        /\ ~last.info.passes =>
              (last.info.action_exc # "None" /\ head(repo) = HeadAtAction)

C4_Witness ==
    /\ VerifyCalled /\ last.exc = "None"
    /\ ~last.info.passes
    /\ last.info.action_exc = "CalledProcessError"

\* C5: write_bark_rules called while the active branch is not the rules
\* branch raises and leaves the repository as it was (no file written, no
\* configuration directory made, nothing staged).
C5_WriteBarkRulesPrecondition ==
    [][(last'.op = "write_bark_rules" /\ active_branch(repo) # BARK_RULES_BRANCH)
          => (exc' = "Exception" /\ repo' = repo)]_vars

C5_Witness ==
    /\ last.op = "write_bark_rules"
    /\ last.info.pre_branch # BARK_RULES_BRANCH
    /\ last.exc = "Exception"
    /\ ~repo.barkdir

\* C6: at the start of every test function that uses the repo fixture the
\* repository tree is exactly the tree of the session snapshot, which is
\* the tree of the freshly initialised repository.
C6_RepoFixtureRestoresSnapshot ==
    last.op = "repo" => (repo = snapshot /\ repo = SessionRepo)

C6_Witness == last.op = "repo" /\ last.info.changed

\* C7: checkout(b, orphan), when git has no cause to refuse (no hook that
\* can veto, no path blocking the switch), makes b the active branch: a
\* missing b is created (unborn when orphan, else at the current head), an
\* existing b keeps its commit.
C7_CheckoutMakesActive ==
    [][LET b == last'.info.branch
           existed == repo.refs[b] # 0
           H == TreeOf(commits, head(repo))
           M == TreeOf(commits, repo.refs[b])
       IN  (/\ last'.op = "checkout"
            /\ ~HookActive(repo)
            /\ ~(existed /\ \E f \in Files : Blocks(repo, H, M, f)))
           => /\ exc' = "None"
              /\ active_branch(repo') = b
              /\ existed => repo'.refs[b] = repo.refs[b]
              /\ (~existed /\ last'.info.orphan) => repo'.refs[b] = 0
              /\ (~existed /\ ~last'.info.orphan) => repo'.refs[b] = head(repo)]_vars

RulesCommitted(event, file, branch, doc) ==
    /\ event[1] = "commit" /\ event[2] = file /\ event[3] = branch
    /\ commits[event[4]].tree[file] = YamlDump(doc)

\* C8: in verify_rules every rule commit precedes the recording of the head
\* and the action: the commit rules are committed on the branch active at
\* the call, the bark rules on the rules branch, then the head is recorded
\* and the action runs on the branch active at the call, at that head.
C8_RulesCommittedBeforeAction ==
    (last.op = "verify_rules" /\ last.info.invoked) =>
        LET i == last.info
            log == i.log
            n == Len(log)
            k == IF Truthy(i.commit_rules) THEN 1 ELSE 0
        IN  /\ n = 2 + k + (IF Truthy(i.bark_rules) THEN 1 ELSE 0)
            /\ log[n - 1][1] = "head"
            /\ log[n] = <<"action", i.branch, log[n - 1][2]>>
            /\ Truthy(i.commit_rules) =>
                  RulesCommitted(log[1], COMMIT_RULES, i.branch, i.commit_rules)
            /\ Truthy(i.bark_rules) =>
                  RulesCommitted(log[k + 1], BARK_RULES, BARK_RULES_BRANCH, i.bark_rules)

C8_Witness ==
    /\ last.op = "verify_rules" /\ last.info.invoked
    /\ Truthy(last.info.commit_rules) /\ Truthy(last.info.bark_rules)
    /\ last.info.branch # BARK_RULES_BRANCH

\* C9: the CLI fixture returns the result iff the exit code is zero; on a
\* non-zero exit it raises SystemExit when the captured exception is a
\* CliFail and re-raises the captured exception itself otherwise.
C9_BarkCliOutcome ==
    last.op = "bark_cli" =>
        LET i == last.info
        IN  /\ i.returned <=> i.result.exit_code = 0
            /\ i.returned => exc = "None"
            /\ (i.result.exit_code # 0 /\ i.result.exception[1] = "CliFail")
                  => (i.raised[1] = "SystemExit" /\ exc = "SystemExit")
            /\ (i.result.exit_code # 0 /\ i.result.exception[1] # "CliFail")
                  => (i.raised = i.result.exception /\ exc = i.raised[1])

C9_Witness ==
    /\ last.op = "bark_cli"
    /\ last.info.result.exception[1] = "CliFail"
    /\ exc = "SystemExit"

\* C10: an action that runs the CLI fixture and is rejected with CliFail
\* counts as an action that raised: verify_action with passes=False
\* returns normally for it whenever the head is unchanged.
C10_CliRejectionAccepted ==
    (/\ VerifyCalled /\ last.info.invoked /\ ~last.info.passes
     /\ last.info.action.kind = "cli"
     /\ last.info.action.result.exception[1] = "CliFail"
     /\ head(repo) = HeadAtAction)
    => last.exc = "None"

====
